---- MODULE Spec2Model ----
(***************************************************************************)
(* ArcGIS service explorer: the catalog crawler (main.py) with its         *)
(* versioned store and revisit scheduler, and the record-count sampler     *)
(* (count_feature_records.py).                                             *)
(*                                                                         *)
(* Representation.  A Python dict is a function from string keys to        *)
(* values.  A string that the code splits or joins on "/" (a url, a folder *)
(* entry, a service name) is the sequence of its "/"-separated segments; a *)
(* url keeps the host as first segment.  A TEXT column holding a date is   *)
(* the sequence of the character codes of its ISO form.  Python None and   *)
(* SQL NULL are None for strings, NoUrl for urls and NullTs for            *)
(* timestamps.                                                             *)
(***************************************************************************)
EXTENDS Integers, Sequences, FiniteSets, TLC

None == "None"
NoUrl == << >>
NullTs == 0
EmptyDict == << >>

(***************************************************************************)
(* Bounds of the model.                                                    *)
(***************************************************************************)
MaxRuns == 3
MaxDay == 2
MaxCalls == 2
MaxCountRuns == 4
MaxLiveRuns == 2
MaxFaultRuns == 2

(***************************************************************************)
(* Python helpers.                                                         *)
(***************************************************************************)
Has(d, k) == k \in DOMAIN d

Get(d, k) == IF k \in DOMAIN d THEN d[k] ELSE None

GetList(d, k) == IF k \in DOMAIN d THEN d[k] ELSE << >>

Truthy(d) == DOMAIN d # {}

TruthyStr(s) == s # None /\ s # ""

Last(s) == s[Len(s)]

Str(n) ==
    CASE n = 0 -> "0" [] n = 1 -> "1" [] n = 2 -> "2" [] n = 3 -> "3"
      [] n = 4 -> "4" [] n = 5 -> "5" [] n = 6 -> "6" [] n = 7 -> "7"
      [] n = 8 -> "8" [] n = 9 -> "9"

\* The characters of a path segment, as code points.
Chars(s) ==
    CASE s = "MapServer" -> <<77, 97, 112, 83, 101, 114, 118, 101, 114>>
      [] s = "FeatureServer" -> <<70, 101, 97, 116, 117, 114, 101, 83, 101, 114, 118, 101, 114>>
      [] s = "GPServer" -> <<71, 80, 83, 101, 114, 118, 101, 114>>
      [] s = "ImageServer" -> <<73, 109, 97, 103, 101, 83, 101, 114, 118, 101, 114>>
      [] s = "Server" -> <<83, 101, 114, 118, 101, 114>>
      [] s = "server" -> <<115, 101, 114, 118, 101, 114>>
      [] s = "Servers" -> <<83, 101, 114, 118, 101, 114, 115>>
      [] s = "Fold1" -> <<70, 111, 108, 100, 49>>
      [] s = "Fold2" -> <<70, 111, 108, 100, 50>>
      [] s = "Svc" -> <<83, 118, 99>>
      [] s = "Svc2" -> <<83, 118, 99, 50>>
      [] s = "services" -> <<115, 101, 114, 118, 105, 99, 101, 115>>
      [] s = "rest" -> <<114, 101, 115, 116>>
      [] s = "Services" -> <<83, 101, 114, 118, 105, 99, 101, 115>>
      [] s = "REST" -> <<82, 69, 83, 84>>
      [] s = "None" -> <<78, 111, 110, 101>>
      [] s = "0" -> <<48>>
      [] s = "1" -> <<49>>
      [] s = "2" -> <<50>>
      [] s = "3" -> <<51>>
      [] s = "4" -> <<52>>
      [] s = "h1" -> <<104, 49>>
      [] s = "h2" -> <<104, 50>>
      [] s = "" -> <<>>

\* The characters of "Server".
ServerSuffix == <<83, 101, 114, 118, 101, 114>>

\* str.endswith(suffix) on the characters of a string.
EndsWith(c, suffix) ==
    /\ Len(c) >= Len(suffix)
    /\ SubSeq(c, Len(c) - Len(suffix) + 1, Len(c)) = suffix

\* url.endswith("Server"): a url ends as its last segment ends, a segment
\* being never shorter than one character unless the url ends in "/".
EndsWithServer(s) == EndsWith(Chars(s), ServerSuffix)

Lower(s) ==
    CASE s = "Services" -> "services"
      [] s = "REST" -> "rest"
      [] s = "Fold1" -> "fold1"
      [] s = "Svc" -> "svc"
      [] s = "MapServer" -> "mapserver"
      [] s = "FeatureServer" -> "featureserver"
      [] OTHER -> s

\* urljoin(url + "/", ref): a ref with a leading "/" replaces the path, any
\* other ref is appended to the path of url.
UrlJoin(url, ref) ==
    IF Len(ref) > 0 /\ ref[1] = ""
    THEN <<url[1]>> \o Tail(ref)
    ELSE url \o ref

\* json.dumps(metadata, sort_keys=True): the members in key order.
KeyOrder ==
    <<"alias", "capabilities", "description", "domain", "fields", "folders",
      "id", "layers", "mapName", "name", "serviceDescription", "services",
      "tables", "type">>

RECURSIVE DumpFrom(_, _)
DumpFrom(d, i) ==
    IF i > Len(KeyOrder) THEN << >>
    ELSE IF KeyOrder[i] \in DOMAIN d
         THEN << <<KeyOrder[i], d[KeyOrder[i]]>> >> \o DumpFrom(d, i + 1)
         ELSE DumpFrom(d, i + 1)

JsonDumps(d) == DumpFrom(d, 1)

\* json_extract(metadata, '$.key'): NULL when the key is absent.
JsonExtract(m, k) ==
    IF \E i \in 1..Len(m) : m[i][1] = k
    THEN m[CHOOSE i \in 1..Len(m) : m[i][1] = k][2]
    ELSE None

(***************************************************************************)
(* Calendar: datetime.date, isoformat() and strptime("%Y-%m-%d").          *)
(***************************************************************************)
StartDate == <<2026, 12, 30>>

IsLeap(y) == (y % 4 = 0 /\ y % 100 # 0) \/ y % 400 = 0

DaysInMonth(y, m) ==
    IF m = 2 THEN (IF IsLeap(y) THEN 29 ELSE 28)
    ELSE IF m \in {4, 6, 9, 11} THEN 30 ELSE 31

NextDay(dt) ==
    IF dt[3] < DaysInMonth(dt[1], dt[2]) THEN <<dt[1], dt[2], dt[3] + 1>>
    ELSE IF dt[2] < 12 THEN <<dt[1], dt[2] + 1, 1>>
    ELSE <<dt[1] + 1, 1, 1>>

RECURSIVE DaysBeforeMonth(_, _)
DaysBeforeMonth(y, m) ==
    IF m = 1 THEN 0 ELSE DaysBeforeMonth(y, m - 1) + DaysInMonth(y, m - 1)

\* date.toordinal()
Ordinal(dt) ==
    LET y == dt[1] - 1
    IN  y * 365 + (y \div 4) - (y \div 100) + (y \div 400)
          + DaysBeforeMonth(dt[1], dt[2]) + dt[3]

Digit(n) == 48 + n

\* date.isoformat(): "YYYY-MM-DD" as character codes ("-" is 45).
IsoDate(dt) ==
    << Digit(dt[1] \div 1000), Digit((dt[1] \div 100) % 10),
       Digit((dt[1] \div 10) % 10), Digit(dt[1] % 10), 45,
       Digit(dt[2] \div 10), Digit(dt[2] % 10), 45,
       Digit(dt[3] \div 10), Digit(dt[3] % 10) >>

\* datetime.strptime(text, "%Y-%m-%d").date()
ParseDate(t) ==
    << (t[1] - 48) * 1000 + (t[2] - 48) * 100 + (t[3] - 48) * 10 + (t[4] - 48),
       (t[6] - 48) * 10 + (t[7] - 48),
       (t[9] - 48) * 10 + (t[10] - 48) >>

\* SQLite's BINARY collation on TEXT: s sorts before t.
RECURSIVE TextLess(_, _)
TextLess(s, t) ==
    IF Len(t) = 0 THEN FALSE
    ELSE IF Len(s) = 0 THEN TRUE
    ELSE IF s[1] # t[1] THEN s[1] < t[1]
    ELSE TextLess(Tail(s), Tail(t))

(***************************************************************************)
(* Versioned catalog store (main.py).  A table is the sequence of its rows *)
(* in insertion (rowid) order.                                             *)
(***************************************************************************)
BoolInt(b) == IF b THEN 1 ELSE 0

MinOf(S) == CHOOSE i \in S : \A j \in S : i <= j

\* Rows matched by "WHERE url = ? AND active = 1".
ResActive(res, url) ==
    {i \in 1..Len(res) : res[i].url = url /\ res[i].active = 1}

\* A variant that leaves the old version active.
EndDateResource_KeepActive(res, now, url) ==
    [i \in 1..Len(res) |->
        IF res[i].url = url /\ res[i].active = 1
        THEN [res[i] EXCEPT !.end_timestamp = now]
        ELSE res[i]]

\* UPDATE resources SET end_timestamp = ?, active = 0 WHERE url = ? AND active = 1
EndDateResource(res, now, url) ==
    [i \in 1..Len(res) |->
        IF res[i].url = url /\ res[i].active = 1
        THEN [res[i] EXCEPT !.end_timestamp = now, !.active = 0]
        ELSE res[i]]

ResourceRow(now, url, res_type, res_subtype, parent_url, server_url, accessible, metadata_str, name, description) ==
    [url |-> url, type |-> res_type, subtype |-> res_subtype,
     parent_url |-> parent_url, server_url |-> server_url,
     accessible |-> BoolInt(accessible), metadata |-> metadata_str,
     name |-> name, description |-> description,
     start_timestamp |-> now, end_timestamp |-> NullTs, active |-> 1]

\* The comparison of update_resource: TRUE when the call returns early.
ResourceUnchanged(old_metadata, new_metadata_str) ==
    old_metadata = new_metadata_str

update_resource(res, now, url, res_type, res_subtype, parent_url, server_url, accessible, metadata, name, description) ==
    LET new_metadata_str == JsonDumps(metadata)
        act == ResActive(res, url)
        row == ResourceRow(now, url, res_type, res_subtype, parent_url,
                           server_url, accessible, new_metadata_str, name,
                           description)
    IN  IF act # {}
        THEN IF ResourceUnchanged(res[MinOf(act)].metadata, new_metadata_str)
             THEN res
             ELSE Append(EndDateResource(res, now, url), row)
        ELSE Append(res, row)

\* Rows matched by "WHERE resource_url = ? AND field_name = ? AND active = 1";
\* a NULL parameter matches no row.
FieldActive(flds, resource_url, field_name) ==
    IF field_name = None THEN {}
    ELSE {i \in 1..Len(flds) : /\ flds[i].resource_url = resource_url
                               /\ flds[i].field_name = field_name
                               /\ flds[i].active = 1}

EndDateField(flds, now, resource_url, field_name) ==
    LET act == FieldActive(flds, resource_url, field_name)
    IN  [i \in 1..Len(flds) |->
            IF i \in act
            THEN [flds[i] EXCEPT !.end_timestamp = now, !.active = 0]
            ELSE flds[i]]

FieldRow(now, resource_url, field) ==
    [resource_url |-> resource_url, field_name |-> Get(field, "name"),
     field_type |-> Get(field, "type"), alias |-> Get(field, "alias"),
     start_timestamp |-> now, end_timestamp |-> NullTs, active |-> 1]

\* The comparison of update_field: TRUE when the call returns early.
FieldUnchanged(old, field) ==
    old.field_type = Get(field, "type") /\ old.alias = Get(field, "alias")

update_field(flds, now, resource_url, field) ==
    LET act == FieldActive(flds, resource_url, Get(field, "name"))
        row == FieldRow(now, resource_url, field)
    IN  IF act # {}
        THEN IF FieldUnchanged(flds[MinOf(act)], field)
             THEN flds
             ELSE Append(EndDateField(flds, now, resource_url,
                                      Get(field, "name")), row)
        ELSE Append(flds, row)

\* insert_domain for every coded value of the field's domain.
RECURSIVE InsertCodedValues(_, _, _, _)
InsertCodedValues(doms, resource_url, field_name, cvs) ==
    IF cvs = << >> THEN doms
    ELSE InsertCodedValues(
            Append(doms, [id |-> Len(doms) + 1, resource_url |-> resource_url,
                          field_name |-> field_name,
                          domain_code |-> IF Has(cvs[1], "code")
                                          THEN Str(cvs[1].code) ELSE None,
                          domain_value |-> Get(cvs[1], "name")]),
            resource_url, field_name, Tail(cvs))

\* A variant that records a field's domain once: nothing is appended when
\* the table has rows of the field.
process_field_domain_Once(doms, resource_url, field) ==
    IF Has(field, "domain") /\ Truthy(field.domain)
                            /\ Has(field.domain, "codedValues")
       /\ ~\E i \in 1..Len(doms) :
              /\ doms[i].resource_url = resource_url
              /\ doms[i].field_name = Get(field, "name")
    THEN InsertCodedValues(doms, resource_url, Get(field, "name"),
                           field.domain.codedValues)
    ELSE doms

process_field_domain(doms, resource_url, field) ==
    IF Has(field, "domain") /\ Truthy(field.domain)
                            /\ Has(field.domain, "codedValues")
    THEN InsertCodedValues(doms, resource_url, Get(field, "name"),
                           field.domain.codedValues)
    ELSE doms

\* The loop "for field in layer_data.get('fields') or []" of crawl: every
\* update_field call reads a later clock than the one before it.
RECURSIVE ProcessFields(_, _, _, _, _)
ProcessFields(flds, doms, clk, resource_url, fieldList) ==
    IF fieldList = << >> THEN [fields |-> flds, domains |-> doms, clock |-> clk]
    ELSE ProcessFields(update_field(flds, clk + 1, resource_url, fieldList[1]),
                       process_field_domain(doms, resource_url, fieldList[1]),
                       clk + 1, resource_url, Tail(fieldList))

\* classify_resource(url, data, parent_url)
classify_resource_SuffixFirst(url, data, parent_url) ==
    IF parent_url = NoUrl THEN [type |-> "server", subtype |-> None]
    ELSE IF EndsWithServer(Last(url))
    THEN [type |-> "service", subtype |-> Last(url)]
    ELSE IF Truthy(data) /\ (Has(data, "folders") \/ Has(data, "services"))
    THEN [type |-> "folder", subtype |-> None]
    ELSE [type |-> "unknown", subtype |-> None]

classify_resource(url, data, parent_url) ==
    IF parent_url = NoUrl THEN [type |-> "server", subtype |-> None]
    ELSE IF Truthy(data) /\ (Has(data, "folders") \/ Has(data, "services"))
    THEN [type |-> "folder", subtype |-> None]
    ELSE IF EndsWithServer(Last(url))
    THEN [type |-> "service", subtype |-> Last(url)]
    ELSE [type |-> "unknown", subtype |-> None]


(***************************************************************************)
(* Revisit scheduler and run bookkeeping (main.py).                        *)
(***************************************************************************)
\* Rows of "SELECT run_date FROM <runs> WHERE server_url = ?".
RunsOf(runs, server_url) ==
    {i \in 1..Len(runs) : runs[i].server_url = server_url}

\* A variant that sorts ascending: the oldest run.
LastRunDate_Oldest(runs, server_url) ==
    LET rows == RunsOf(runs, server_url)
        i == CHOOSE k \in rows :
                \A j \in rows : ~TextLess(runs[j].run_date, runs[k].run_date)
    IN  runs[i].run_date

\* "ORDER BY run_date DESC LIMIT 1": a row no other row sorts after.
LastRunDate(runs, server_url) ==
    LET rows == RunsOf(runs, server_url)
        i == CHOOSE k \in rows :
                \A j \in rows : ~TextLess(runs[k].run_date, runs[j].run_date)
    IN  runs[i].run_date

\* A variant without the rule for revisit_days = 0, comparing strictly.
should_process_server_Strict(runs, server_url, revisit_days, day) ==
    IF RunsOf(runs, server_url) = {} THEN TRUE
    ELSE LET last_run_date == ParseDate(LastRunDate(runs, server_url))
             diff == Ordinal(day) - Ordinal(last_run_date)
         IN  diff > revisit_days

should_process_server(runs, server_url, revisit_days, day) ==
    IF revisit_days = 0 THEN TRUE
    ELSE IF RunsOf(runs, server_url) = {} THEN TRUE
    ELSE LET last_run_date == ParseDate(LastRunDate(runs, server_url))
             diff == Ordinal(day) - Ordinal(last_run_date)
         IN  diff >= revisit_days

start_processing_run(runs, now, server_url, day) ==
    Append(runs, [run_id |-> Len(runs) + 1, server_url |-> server_url,
                  run_date |-> IsoDate(day), start_timestamp |-> now,
                  end_timestamp |-> NullTs])

\* A variant that closes every open run.
end_processing_run_AllOpen(runs, now, id) ==
    [i \in 1..Len(runs) |->
        IF runs[i].end_timestamp = NullTs
        THEN [runs[i] EXCEPT !.end_timestamp = now]
        ELSE runs[i]]

end_processing_run(runs, now, id) ==
    [i \in 1..Len(runs) |->
        IF runs[i].run_id = id THEN [runs[i] EXCEPT !.end_timestamp = now]
        ELSE runs[i]]

\* INSERT OR REPLACE INTO servers
insert_server(tbl, url, short_name, description) ==
    {r \in tbl : r.url # url}
        \cup {[url |-> url, short_name |-> short_name,
               description |-> description]}

(***************************************************************************)
(* The remote catalogs.  A catalog maps a url to the result of fetch_json; *)
(* a url it does not map fails to fetch.                                   *)
(***************************************************************************)
Ok(d) == [ok |-> TRUE, data |-> d]
Fail == [ok |-> FALSE, data |-> EmptyDict]

S1 == <<"h1", "rest", "services">>
S2 == <<"h2", "rest", "services">>
Fold1Url == S1 \o <<"Fold1">>
SvcUrl == Fold1Url \o <<"Svc", "MapServer">>
LayerUrl == SvcUrl \o <<"0">>

RootDesc == [folders |-> << <<"Fold1">> >>]
Fold1Desc == [services |-> <<[name |-> <<"Fold1", "Svc">>, type |-> "MapServer"]>>]
SvcDesc == [layers |-> <<[id |-> 0]>>]
OidField == [name |-> "OID", type |-> "esriFieldTypeOID"]
LayerDesc == [name |-> "Roads", fields |-> <<OidField>>]

\* The tree root -> Fold1 -> Fold1/Svc (MapServer) -> layer 0.
CatTree ==
    (S1 :> Ok(RootDesc)) @@ (Fold1Url :> Ok(Fold1Desc))
        @@ (SvcUrl :> Ok(SvcDesc)) @@ (LayerUrl :> Ok(LayerDesc))

\* The tree with a layer whose own descriptor cannot be fetched.
CatLayerFail ==
    (S1 :> Ok(RootDesc)) @@ (Fold1Url :> Ok(Fold1Desc))
        @@ (SvcUrl :> Ok([layers |-> <<[id |-> 0, name |-> "Roads"]>>]))

\* Fold1 lists the root as a child folder, and itself.
CatCycle ==
    (S1 :> Ok(RootDesc))
        @@ (Fold1Url :> Ok([folders |-> << <<"", "rest", "services">>,
                                         <<"", "rest", "services", "Fold1">> >>,
                           services |-> Fold1Desc.services]))
        @@ (SvcUrl :> Ok(SvcDesc)) @@ (LayerUrl :> Ok(LayerDesc))

\* The service lists layer 0 twice, with different summaries; its descriptor
\* cannot be fetched.
CatDup ==
    (S1 :> Ok(RootDesc)) @@ (Fold1Url :> Ok(Fold1Desc))
        @@ (SvcUrl :> Ok([layers |-> <<[id |-> 0, name |-> "a"],
                                       [id |-> 0, name |-> "b"]>>]))

\* Layer 0 with a retyped OID field and a second field.
CatRetype ==
    (S1 :> Ok(RootDesc)) @@ (Fold1Url :> Ok(Fold1Desc))
        @@ (SvcUrl :> Ok(SvcDesc))
        @@ (LayerUrl :> Ok([name |-> "Roads",
                            fields |-> <<[name |-> "OID",
                                          type |-> "esriFieldTypeInteger"],
                                         [name |-> "Shape",
                                          type |-> "esriFieldTypeGeometry",
                                          alias |-> "SHAPE"]>>]))

\* Layer 0 as in CatRetype before the OID field was retyped.
CatTwoFields ==
    (S1 :> Ok(RootDesc)) @@ (Fold1Url :> Ok(Fold1Desc))
        @@ (SvcUrl :> Ok(SvcDesc))
        @@ (LayerUrl :> Ok([name |-> "Roads",
                            fields |-> <<OidField,
                                         [name |-> "Shape",
                                          type |-> "esriFieldTypeGeometry",
                                          alias |-> "SHAPE"]>>]))

\* The root lists Fold1, which cannot be fetched, and then Fold2; what Fold1
\* would have listed is still served.
Fold2Url == S1 \o <<"Fold2">>
Svc2Url == Fold2Url \o <<"Svc2", "MapServer">>

CatFoldFail ==
    (S1 :> Ok([folders |-> << <<"Fold1">>, <<"Fold2">> >>]))
        @@ (SvcUrl :> Ok(SvcDesc)) @@ (LayerUrl :> Ok(LayerDesc))
        @@ (Fold2Url :> Ok([services |-> <<[name |-> <<"Svc2">>,
                                            type |-> "MapServer"]>>]))
        @@ (Svc2Url :> Ok([layers |-> <<[id |-> 0], [id |-> 1]>>]))
        @@ (Svc2Url \o <<"1">> :> Ok([name |-> "Rivers"]))

\* Fold1 lists a service entry without "name" before Fold1/Svc.
CatNamelessService ==
    (S1 :> Ok(RootDesc))
        @@ (Fold1Url :> Ok([services |-> <<[type |-> "MapServer"],
                                           [name |-> <<"Fold1", "Svc">>,
                                            type |-> "MapServer"]>>]))
        @@ (SvcUrl :> Ok(SvcDesc)) @@ (LayerUrl :> Ok(LayerDesc))

\* The root lists a service entry without "name" and one without "type"; the
\* service lists a layer entry without "id" and a table.
CatMissingKeys ==
    (S1 :> Ok([services |-> <<[type |-> "MapServer"],
                              [name |-> <<"Svc">>],
                              [name |-> <<"Svc">>, type |-> "MapServer"]>>]))
        @@ (S1 \o <<"Svc", "MapServer">> :>
                Ok([layers |-> <<[name |-> "x"]>>,
                    tables |-> <<[id |-> 1]>>]))

\* Layer 0 with a field that has a coded-value domain of two entries.
KindField ==
    [name |-> "Kind", type |-> "esriFieldTypeSmallInteger",
     domain |-> [type |-> "codedValue",
                 codedValues |-> <<[code |-> 1, name |-> "Paved"],
                                   [code |-> 2, name |-> "Gravel"]>>]]

CatDomain ==
    (S1 :> Ok(RootDesc)) @@ (Fold1Url :> Ok(Fold1Desc))
        @@ (SvcUrl :> Ok(SvcDesc))
        @@ (LayerUrl :> Ok([name |-> "Roads",
                            fields |-> <<OidField, KindField>>]))

\* Layer 0 with a field entry that has no name.
CatNameless ==
    (S1 :> Ok(RootDesc)) @@ (Fold1Url :> Ok(Fold1Desc))
        @@ (SvcUrl :> Ok(SvcDesc))
        @@ (LayerUrl :> Ok([name |-> "Roads",
                            fields |-> <<OidField,
                                         [type |-> "esriFieldTypeString"]>>]))

\* The root answers with an empty descriptor.
CatEmpty == (S1 :> Ok(EmptyDict))

\* Nothing can be fetched.
CatDown == (S1 :> Fail)

S2SvcUrl == S2 \o <<"Parcels", "FeatureServer">>

CatS2 ==
    (S2 :> Ok([services |-> <<[name |-> <<"Parcels">>,
                               type |-> "FeatureServer"]>>]))
        @@ (S2SvcUrl :> Ok([name |-> "Parcels",
                            layers |-> <<[id |-> 0]>>,
                            tables |-> <<[id |-> 1, name |-> "Owners"]>>]))
        @@ (S2SvcUrl \o <<"0">> :>
                Ok([name |-> "Lots", type |-> "Feature Layer",
                    capabilities |-> <<"Map", "Query", "Data">>,
                    fields |-> <<[name |-> "PIN", type |-> "esriFieldTypeString",
                                  alias |-> "Pin"]>>]))

CatS2Down == (S2 :> Fail)

\* The service of S2 with layer 0 (Query, fields), layer 2 (Query, no
\* fields), layer 3 (Query, fields), layer 4 (fields, no Query) and a table.
CatS2Mixed ==
    (S2 :> Ok([services |-> <<[name |-> <<"Parcels">>,
                               type |-> "FeatureServer"]>>]))
        @@ (S2SvcUrl :> Ok([name |-> "Parcels",
                            layers |-> <<[id |-> 0], [id |-> 2], [id |-> 3],
                                         [id |-> 4]>>,
                            tables |-> <<[id |-> 1, name |-> "Owners"]>>]))
        @@ (S2SvcUrl \o <<"0">> :>
                Ok([name |-> "Lots", type |-> "Feature Layer",
                    capabilities |-> <<"Map", "Query", "Data">>,
                    fields |-> <<[name |-> "PIN", type |-> "esriFieldTypeString",
                                  alias |-> "Pin"]>>]))
        @@ (S2SvcUrl \o <<"2">> :>
                Ok([name |-> "Notes", capabilities |-> <<"Map", "Query">>]))
        @@ (S2SvcUrl \o <<"3">> :>
                Ok([name |-> "Zones", capabilities |-> <<"Query">>,
                    fields |-> <<OidField>>]))
        @@ (S2SvcUrl \o <<"4">> :>
                Ok([name |-> "Tiles", capabilities |-> <<"Map", "Data">>,
                    fields |-> <<OidField>>]))

\* The service of S2 with a layer and a table whose descriptors both declare
\* a type.
CatS2Table ==
    (S2 :> Ok([services |-> <<[name |-> <<"Parcels">>,
                               type |-> "FeatureServer"]>>]))
        @@ (S2SvcUrl :> Ok([name |-> "Parcels",
                            layers |-> <<[id |-> 0]>>,
                            tables |-> <<[id |-> 1, name |-> "Owners"]>>]))
        @@ (S2SvcUrl \o <<"0">> :>
                Ok([name |-> "Lots", type |-> "Feature Layer"]))
        @@ (S2SvcUrl \o <<"1">> :>
                Ok([name |-> "Owners", type |-> "Table"]))

CatalogsOf(server_url) ==
    IF server_url = S1
    THEN <<CatTree, CatLayerFail, CatCycle, CatDup, CatRetype, CatNameless,
           CatEmpty, CatDown, CatTwoFields, CatFoldFail, CatNamelessService,
           CatMissingKeys, CatDomain>>
    ELSE <<CatS2, CatS2Down, CatS2Mixed, CatS2Table>>

\* fetch_json(url) against catalog cat.
fetch_json(cat, url) == IF url \in DOMAIN cat THEN cat[url] ELSE Fail


(***************************************************************************)
(* State.                                                                  *)
(***************************************************************************)
VARIABLES
    servers,            \* table servers
    resources,          \* table resources
    fields,             \* table fields
    domains,            \* table domains
    processing_runs,    \* table processing_runs
    counts,             \* table counts
    count_runs,         \* table count_runs
    clock,              \* the last value datetime.now() returned
    today,              \* datetime.date.today()
    pc,                 \* position of the running script, "idle" when none runs
    serverList,         \* the rows load_servers returned
    idx,                \* position of the "for server in servers" loop
    run_id,             \* run_id of the run in flight
    catalog,            \* what the server in flight answers during this crawl
    stack,              \* the activations of crawl, innermost last
    visited,            \* the visited set of the crawl in flight
    log,                \* the urls printed as "Crawling: <url>" by this crawl
    atStart,            \* resources and fields when the crawl in flight began
    lastCrawl,          \* per server: the catalog its last crawl completed on
    layerQueue,         \* count script: the layers still to sample
    sampleLog,          \* every "Layer: <url> -> <count> records" printed so
                        \* far, with the answer of the query behind it
    elapsed,            \* history: the midnights that passed
    runDays,            \* history: per row of processing_runs, elapsed at its start
    countRunDays,       \* history: per row of count_runs, elapsed at its start
    workers,            \* concurrent upserts: per worker, its position and locals
    classified          \* a call of classify_resource: its arguments, its result

storeVars == <<servers, resources, fields, domains, processing_runs, runDays>>
countVars == <<counts, count_runs, layerQueue, sampleLog, countRunDays>>
crawlVars == <<catalog, stack, visited, log, atStart, lastCrawl>>
mainVars == <<pc, serverList, idx, run_id>>
vars ==
    <<storeVars, countVars, crawlVars, mainVars, clock, today, elapsed, workers,
                   classified>>

RevisitChoices == {0, 1, 2}

\* The runs both scripts recorded so far.
RunCount == Len(processing_runs) + Len(count_runs)

NoCatalog == [server |-> NoUrl, n |-> 0]

Catalog == CatalogsOf(catalog.server)[catalog.n]

Top == stack[Len(stack)]

Pop == SubSeq(stack, 1, Len(stack) - 1)

CurrentServer == serverList[idx].url

\* What remains of the activation f of crawl: its next loop with an item left,
\* "done" when no loop has one.
PhaseOrder == <<"folders", "services", "layers", "tables">>

RECURSIVE Settle(_)
Settle(f) ==
    IF f.phase = "done" THEN f
    ELSE IF f.i <= Len(GetList(f.data, f.phase)) THEN f
    ELSE LET k == CHOOSE n \in 1..4 : PhaseOrder[n] = f.phase
         IN  IF k = 4 THEN [f EXCEPT !.phase = "done", !.i = 1]
             ELSE Settle([f EXCEPT !.phase = PhaseOrder[k + 1], !.i = 1])

Frame(url, parent_url) ==
    [url |-> url, parent_url |-> parent_url, phase |-> "enter", i |-> 1,
     data |-> EmptyDict]

\* The item the innermost activation is about to process.
Item == GetList(Top.data, Top.phase)[Top.i]

Advance(f) == Settle([f EXCEPT !.i = @ + 1])

\* Two processes that run update_resource and update_field on the same
\* database, each on its own connection.
Workers == {1, 2}

IdleWorker ==
    [pc |-> "idle", now |-> 0, metadata |-> EmptyDict, field |-> EmptyDict,
     calls |-> 0]

(***************************************************************************)
(* main.py: the main loop.                                                 *)
(***************************************************************************)
InitProgram ==
    /\ servers = {}
    /\ resources = << >>
    /\ fields = << >>
    /\ domains = << >>
    /\ processing_runs = << >>
    /\ counts = << >>
    /\ count_runs = << >>
    /\ clock = 0
    /\ today = StartDate
    /\ pc = "idle"
    /\ serverList = << >>
    /\ idx = 1
    /\ run_id = 0
    /\ catalog = NoCatalog
    /\ stack = << >>
    /\ visited = {}
    /\ log = << >>
    /\ atStart = [resources |-> << >>, fields |-> << >>]
    /\ lastCrawl = [s \in {S1, S2} |-> 0]
    /\ layerQueue = << >>
    /\ sampleLog = << >>
    /\ elapsed = 0
    /\ runDays = << >>
    /\ countRunDays = << >>
    /\ workers = [w \in Workers |-> IdleWorker]

\* No call of classify_resource is under observation.
NoCall ==
    [url |-> NoUrl, answer |-> Fail, parent_url |-> NoUrl, done |-> FALSE,
     result |-> [type |-> None, subtype |-> None]]

Init == InitProgram /\ classified = NoCall

(***************************************************************************)
(* classify_resource on its own: crawl calls it on the url it is at, on    *)
(* whatever fetch_json answered there (None when the fetch failed) and on  *)
(* the parent it was given, so every combination of the three is a call    *)
(* some catalog produces.                                                  *)
(***************************************************************************)
ClassifyLasts ==
    {"MapServer", "FeatureServer", "GPServer", "ImageServer", "Server",
     "server", "Servers", "Fold1", "Svc", "0", ""}

ClassifyUrls ==
    {S1, S2, Fold1Url, SvcUrl}
        \cup {p \o <<l>> : p \in {S1, Fold1Url, SvcUrl}, l \in ClassifyLasts}

ClassifyAnswers ==
    {Fail, Ok(EmptyDict), Ok(RootDesc), Ok(Fold1Desc), Ok(SvcDesc),
     Ok(LayerDesc), Ok([folders |-> << >>]), Ok([services |-> << >>]),
     Ok([folders |-> << >>, services |-> << >>, layers |-> <<[id |-> 0]>>])}

ClassifyParents == {NoUrl, S1, Fold1Url}

InitClassify ==
    /\ InitProgram
    /\ classified \in
          {[url |-> u, answer |-> a, parent_url |-> q, done |-> FALSE,
            result |-> NoCall.result] :
              u \in ClassifyUrls, a \in ClassifyAnswers, q \in ClassifyParents}

\* crawl, lines 209-210: the descriptor fetched, the node classified.
Classify ==
    /\ ~classified.done
    /\ classified.url # NoUrl
    /\ classified' =
          [classified EXCEPT
              !.done = TRUE,
              !.result = classify_resource(classified.url,
                                           classified.answer.data,
                                           classified.parent_url)]
    /\ UNCHANGED <<storeVars, countVars, crawlVars, mainVars, clock, today,
                   elapsed, workers>>

NextClassify == Classify

SpecClassify == InitClassify /\ [][NextClassify]_vars

\* The rows of servers.csv.
Row(url, revisit_days) ==
    [url |-> url, short_name |-> IF url = S1 THEN "one" ELSE "two",
     description |-> IF url = S1 THEN "first" ELSE "second",
     revisit_days |-> revisit_days]

\* What load_servers can return: the rows whose to_process is truthy, with
\* their revisit_days taken from days.
ServerLists(days) ==
    {<<Row(S1, d)>> : d \in days} \cup {<<Row(S2, d)>> : d \in days}
        \cup {<<Row(S1, d), Row(S2, e)>> : d \in days, e \in days}

\* main() up to the loop: load_servers, connect, create_tables.
MainStart(days, limit) ==
    /\ pc = "idle"
    /\ RunCount < limit
    /\ serverList' \in ServerLists(days)
    /\ idx' = 1
    /\ pc' = "loop"
    /\ UNCHANGED <<storeVars, countVars, crawlVars, run_id, clock, today, elapsed,
                   workers,
                   classified>>

\* One pass of the loop up to the call of crawl: should_process_server, and
\* when it is true insert_server and start_processing_run.
ServerStep(cats, limit) ==
    /\ pc = "loop"
    /\ idx <= Len(serverList)
    /\ LET s == serverList[idx]
       IN  IF ~should_process_server(processing_runs, s.url, s.revisit_days,
                                     today)
           THEN /\ idx' = idx + 1
                /\ UNCHANGED <<storeVars, crawlVars, pc, run_id, clock>>
           ELSE /\ RunCount < limit
                /\ servers' = insert_server(servers, s.url, s.short_name,
                                            s.description)
                /\ processing_runs' = start_processing_run(processing_runs,
                                            clock + 1, s.url, today)
                /\ runDays' = Append(runDays, elapsed)
                /\ run_id' = Len(processing_runs) + 1
                /\ clock' = clock + 1
                /\ \E c \in cats[s.url] :
                      catalog' = [server |-> s.url, n |-> c]
                /\ stack' = <<Frame(s.url, NoUrl)>>
                /\ visited' = {}
                /\ log' = << >>
                /\ atStart' = [resources |-> resources, fields |-> fields]
                /\ lastCrawl' = lastCrawl
                /\ pc' = "crawl"
                /\ UNCHANGED <<resources, fields, domains, idx>>
    /\ UNCHANGED <<countVars, serverList, today, elapsed, workers,
                   classified>>

\* The process is gone, and its variables with it.
ProcessExit ==
    /\ pc' = "idle"
    /\ serverList' = << >>
    /\ idx' = 1
    /\ run_id' = 0
    /\ catalog' = NoCatalog
    /\ stack' = << >>
    /\ visited' = {}
    /\ log' = << >>
    /\ atStart' = [resources |-> << >>, fields |-> << >>]
    /\ layerQueue' = << >>

\* The process ends inside a run: the traceback of an uncaught exception, or
\* a kill.  Nothing after the failing statement runs.
Terminate ==
    /\ ProcessExit
    /\ lastCrawl' = [lastCrawl EXCEPT ![catalog.server] = 0]

\* A variant of the guard that never finds a url.
AlreadyVisited_Never(url, seen) == FALSE

\* "if url in visited: return"
AlreadyVisited(url, seen) == url \in seen

\* A variant in which a failed fetch unwinds the whole crawl.
AfterFetch_Abort(r) ==
    IF ~r.ok THEN << >>
    ELSE Pop \o <<Settle([Top EXCEPT !.phase = "folders", !.i = 1,
                                     !.data = r.data])>>

\* "if not accessible or data is None: return", and otherwise on to the
\* loops over the children the descriptor declares.
AfterFetch(r) ==
    IF ~r.ok THEN Pop
    ELSE Pop \o <<Settle([Top EXCEPT !.phase = "folders", !.i = 1,
                                     !.data = r.data])>>

\* crawl(url, ...) from its first line to the test before the child loops:
\* the visited guard, fetch_json, classify_resource, update_resource.
CrawlVisit ==
    /\ pc = "crawl"
    /\ stack # << >>
    /\ Top.phase = "enter"
    /\ IF AlreadyVisited(Top.url, visited)
       THEN /\ stack' = Pop
            /\ UNCHANGED <<resources, clock, visited, log>>
       ELSE LET url == Top.url
                r == fetch_json(Catalog, url)
                cls == classify_resource(url, r.data, Top.parent_url)
                isService == cls.type = "service" /\ Truthy(r.data)
                isLayer == cls.type = "layer" /\ Truthy(r.data)
                resource_name ==
                    IF isService
                    THEN (IF TruthyStr(Get(r.data, "mapName"))
                          THEN Get(r.data, "mapName") ELSE Get(r.data, "name"))
                    ELSE IF isLayer THEN Get(r.data, "name") ELSE None
                resource_description ==
                    IF isService THEN Get(r.data, "serviceDescription")
                    ELSE IF isLayer THEN Get(r.data, "description") ELSE None
                res_subtype ==
                    IF isLayer THEN Get(r.data, "type") ELSE cls.subtype
            IN  /\ visited' = visited \cup {url}
                /\ log' = Append(log, url)
                /\ resources' = update_resource(resources, clock + 1, url,
                                    cls.type, res_subtype, Top.parent_url,
                                    catalog.server, r.ok, r.data,
                                    resource_name, resource_description)
                /\ clock' = clock + 1
                /\ stack' = AfterFetch(r)
    /\ UNCHANGED <<servers, fields, domains, processing_runs, runDays,
                   countVars, catalog, atStart, lastCrawl, mainVars, today,
                   elapsed, workers,
                   classified>>

\* One iteration of "for folder in data['folders']": the recursive call.
CrawlFolder ==
    /\ pc = "crawl"
    /\ stack # << >>
    /\ Top.phase = "folders"
    /\ stack' = Pop \o <<Advance(Top), Frame(UrlJoin(Top.url, Item), Top.url)>>
    /\ UNCHANGED <<storeVars, countVars, catalog, visited, log, atStart,
                   lastCrawl, mainVars, clock, today, elapsed, workers,
                   classified>>

\* A variant that never strips the folder prefix of the declared name.
ServiceUrl_KeepPrefix(url, service) ==
    UrlJoin(url, service.name \o <<Get(service, "type")>>)

\* The url the services loop builds for one entry.
ServiceUrl(url, service) ==
    LET current_folder == Last(url)
        declared == service.name
        service_name_field ==
            IF Lower(current_folder) \notin {"rest", "services"}
               /\ Len(declared) > 1 /\ declared[1] = current_folder
            THEN Tail(declared)
            ELSE declared
    IN  UrlJoin(url, service_name_field \o <<Get(service, "type")>>)

\* One iteration of "for service in data['services']".  An entry without a
\* name raises AttributeError at startswith unless the current folder is
\* "rest" or "services", where the name formats as "None".
CrawlService ==
    /\ pc = "crawl"
    /\ stack # << >>
    /\ Top.phase = "services"
    /\ IF ~Has(Item, "name")
          /\ Lower(Last(Top.url)) \notin {"rest", "services"}
       THEN Terminate
       ELSE LET service == IF Has(Item, "name") THEN Item
                           ELSE [name |-> <<None>>] @@ Item
                service_url == ServiceUrl(Top.url, service)
            IN  /\ stack' = IF service_url \notin visited
                            THEN Pop \o <<Advance(Top),
                                          Frame(service_url, Top.url)>>
                            ELSE Pop \o <<Advance(Top)>>
                /\ UNCHANGED <<catalog, visited, log, atStart, lastCrawl,
                               mainVars, layerQueue>>
    /\ UNCHANGED <<storeVars, counts, count_runs, sampleLog, countRunDays, clock,
                   today, elapsed, workers,
                   classified>>

\* The body of the layers loop (kind "layer") and of the tables loop (kind
\* "table") for the entry child of the node url: fetch the child's descriptor,
\* update_resource, and for a fetched descriptor update_field and
\* process_field_domain per field.
ChildUrl(url, child) ==
    UrlJoin(url, <<IF Has(child, "id") THEN Str(child.id) ELSE None>>)

ProcessChild(kind, url, child) ==
    LET child_url == ChildUrl(url, child)
        r == fetch_json(Catalog, child_url)
        l_subtype == IF kind = "layer" THEN Get(r.data, "type") ELSE None
        done == ProcessFields(fields, domains, clock + 1, child_url,
                              GetList(r.data, "fields"))
    IN  IF r.ok /\ Truthy(r.data)
        THEN /\ resources' = update_resource(resources, clock + 1, child_url,
                                 kind, l_subtype, url, catalog.server, TRUE,
                                 r.data, Get(r.data, "name"),
                                 Get(r.data, "description"))
             /\ fields' = done.fields
             /\ domains' = done.domains
             /\ clock' = done.clock
        ELSE /\ resources' = update_resource(resources, clock + 1, child_url,
                                 kind, None, url, catalog.server, r.ok,
                                 child, None, None)
             /\ clock' = clock + 1
             /\ UNCHANGED <<fields, domains>>

\* One iteration of "for layer in data['layers']".
CrawlLayer ==
    /\ pc = "crawl"
    /\ stack # << >>
    /\ Top.phase = "layers"
    /\ ProcessChild("layer", Top.url, Item)
    /\ stack' = Pop \o <<Advance(Top)>>
    /\ UNCHANGED <<servers, processing_runs, runDays, countVars, catalog,
                   visited, log, atStart, lastCrawl, mainVars, today, elapsed,
                   workers,
                   classified>>

\* One iteration of "for table in data['tables']".
CrawlTable ==
    /\ pc = "crawl"
    /\ stack # << >>
    /\ Top.phase = "tables"
    /\ ProcessChild("table", Top.url, Item)
    /\ stack' = Pop \o <<Advance(Top)>>
    /\ UNCHANGED <<servers, processing_runs, runDays, countVars, catalog,
                   visited, log, atStart, lastCrawl, mainVars, today, elapsed,
                   workers,
                   classified>>

\* crawl returns to its caller.
\* A variant that, when the outermost activation returns, end-dates the
\* active folder and service rows of the server that this crawl did not visit.
CrawlReturn_Sweep ==
    /\ pc = "crawl"
    /\ stack # << >>
    /\ Top.phase = "done"
    /\ stack' = Pop
    /\ resources' =
          IF Len(stack) > 1 THEN resources
          ELSE [i \in 1..Len(resources) |->
                   IF /\ resources[i].active = 1
                      /\ resources[i].server_url = catalog.server
                      /\ resources[i].type \notin {"layer", "table"}
                      /\ resources[i].url \notin visited
                   THEN [resources[i] EXCEPT !.end_timestamp = clock,
                                             !.active = 0]
                   ELSE resources[i]]
    /\ UNCHANGED <<servers, fields, domains, processing_runs, runDays,
                   countVars, catalog, visited, log, atStart, lastCrawl,
                   mainVars, clock, today, elapsed, workers, classified>>

CrawlReturn ==
    /\ pc = "crawl"
    /\ stack # << >>
    /\ Top.phase = "done"
    /\ stack' = Pop
    /\ UNCHANGED <<storeVars, countVars, catalog, visited, log, atStart,
                   lastCrawl, mainVars, clock, today, elapsed, workers,
                   classified>>

\* The outermost crawl returned: end_processing_run, next server.
EndRun ==
    /\ pc = "crawl"
    /\ stack = << >>
    /\ processing_runs' = end_processing_run(processing_runs, clock + 1, run_id)
    /\ clock' = clock + 1
    /\ lastCrawl' = [lastCrawl EXCEPT ![catalog.server] = catalog.n]
    /\ idx' = idx + 1
    /\ pc' = "loop"
    /\ UNCHANGED <<servers, resources, fields, domains, runDays, countVars,
                   catalog, stack, visited, log, atStart, serverList, run_id,
                   today, elapsed, workers,
                   classified>>

\* The loop is over: conn.close().
MainExit ==
    /\ pc = "loop"
    /\ idx > Len(serverList)
    /\ ProcessExit
    /\ UNCHANGED <<storeVars, counts, count_runs, sampleLog, countRunDays,
                   lastCrawl, clock, today, elapsed,
                   workers,
                   classified>>

\* The process is killed while a crawl is in flight.
Crash ==
    /\ pc = "crawl"
    /\ Terminate
    /\ UNCHANGED <<storeVars, counts, count_runs, sampleLog, countRunDays, clock,
                   today, elapsed, workers,
                   classified>>

\* A statement of update_resource, update_field or insert_domain raises
\* sqlite3.Error (database locked, disk full) inside crawl.  Neither crawl nor
\* main catches it: the traceback ends the process.
StoreError ==
    /\ pc = "crawl"
    /\ stack # << >>
    /\ Top.phase \in {"enter", "layers", "tables"}
    /\ Terminate
    /\ UNCHANGED <<storeVars, counts, count_runs, sampleLog, countRunDays, clock,
                   today, elapsed, workers,
                   classified>>

\* Midnight passes between two runs of the scripts.
Tick ==
    /\ pc = "idle"
    /\ elapsed < MaxDay
    /\ today' = NextDay(today)
    /\ elapsed' = elapsed + 1
    /\ UNCHANGED <<storeVars, countVars, crawlVars, mainVars, clock, workers,
                   classified>>

Crawl ==
    \/ CrawlVisit
    \/ CrawlFolder
    \/ CrawlService
    \/ CrawlLayer
    \/ CrawlTable
    \/ CrawlReturn

(***************************************************************************)
(* count_feature_records.py.                                               *)
(***************************************************************************)
should_process_server_count(runs, server_url, count_revisit_days, day) ==
    IF count_revisit_days = 0 THEN TRUE
    ELSE IF RunsOf(runs, server_url) = {} THEN TRUE
    ELSE LET last_run_date == ParseDate(LastRunDate(runs, server_url))
             diff == Ordinal(day) - Ordinal(last_run_date)
         IN  diff >= count_revisit_days

start_count_run(runs, now, server_url, day) ==
    Append(runs, [run_id |-> Len(runs) + 1, server_url |-> server_url,
                  run_date |-> IsoDate(day), start_timestamp |-> now,
                  end_timestamp |-> NullTs])

end_count_run(runs, now, id) ==
    [i \in 1..Len(runs) |->
        IF runs[i].run_id = id THEN [runs[i] EXCEPT !.end_timestamp = now]
        ELSE runs[i]]

\* lower(json_extract(metadata, '$.capabilities')) LIKE '%query%', the
\* capabilities string being the sequence of its comma-separated entries.
LowerCapability(c) ==
    CASE c = "Query" -> "query" [] c = "Map" -> "map" [] c = "Data" -> "data"
      [] OTHER -> c

Queryable(metadata) ==
    LET caps == JsonExtract(metadata, "capabilities")
    IN  IF caps = None THEN FALSE
        ELSE \E i \in 1..Len(caps) : LowerCapability(caps[i]) = "query"

RECURSIVE UrlsOf(_, _, _)
UrlsOf(res, rows, i) ==
    IF i > Len(res) THEN << >>
    ELSE IF i \in rows THEN <<res[i].url>> \o UrlsOf(res, rows, i + 1)
    ELSE UrlsOf(res, rows, i + 1)

\* A variant without the test for a fields row.
get_feature_layers_for_server_AnyFields(res, flds, server_url) ==
    UrlsOf(res,
           {i \in 1..Len(res) :
               /\ res[i].server_url = server_url
               /\ res[i].type = "layer"
               /\ res[i].active = 1
               /\ Queryable(res[i].metadata)},
           1)

get_feature_layers_for_server(res, flds, server_url) ==
    UrlsOf(res,
           {i \in 1..Len(res) :
               /\ res[i].server_url = server_url
               /\ res[i].type = "layer"
               /\ res[i].active = 1
               /\ Queryable(res[i].metadata)
               /\ \E j \in 1..Len(flds) : flds[j].resource_url = res[i].url},
           1)

\* What the layer's /query endpoint may answer.
QueryAnswers ==
    <<Fail, Ok([count |-> 5]), Ok([count |-> 7]), Ok([error |-> "failed"])>>

get_feature_layer_record_count(answer) ==
    IF ~answer.ok THEN 0
    ELSE IF Has(answer.data, "error") THEN 0
    ELSE IF Has(answer.data, "count") THEN answer.data.count
    ELSE 0

\* A variant that versions by content, as update_resource does: an unchanged
\* count adds no row.
insert_count_SkipUnchanged(cnts, now, layer_url, record_count) ==
    IF \E i \in 1..Len(cnts) : /\ cnts[i].layer_url = layer_url
                               /\ cnts[i].active = 1
                               /\ cnts[i].record_count = record_count
    THEN cnts
    ELSE Append([i \in 1..Len(cnts) |->
                    IF cnts[i].layer_url = layer_url /\ cnts[i].active = 1
                    THEN [cnts[i] EXCEPT !.active = 0]
                    ELSE cnts[i]],
                [id |-> Len(cnts) + 1, layer_url |-> layer_url,
                 record_count |-> record_count, timestamp |-> now,
                 active |-> 1])

insert_count(cnts, now, layer_url, record_count) ==
    Append([i \in 1..Len(cnts) |->
               IF cnts[i].layer_url = layer_url /\ cnts[i].active = 1
               THEN [cnts[i] EXCEPT !.active = 0]
               ELSE cnts[i]],
           [id |-> Len(cnts) + 1, layer_url |-> layer_url,
            record_count |-> record_count, timestamp |-> now, active |-> 1])

\* main() up to the loop: load_servers_for_counts, connect, create tables.
CountStart(days, limit) ==
    /\ pc = "idle"
    /\ RunCount < limit
    /\ serverList' \in ServerLists(days)
    /\ idx' = 1
    /\ pc' = "countloop"
    /\ UNCHANGED <<storeVars, countVars, crawlVars, run_id, clock, today, elapsed,
                   workers,
                   classified>>

\* One pass of the loop up to the layer loop: should_process_server_count,
\* and when it is true start_count_run and get_feature_layers_for_server.
CountServerStep(limit) ==
    /\ pc = "countloop"
    /\ idx <= Len(serverList)
    /\ LET s == serverList[idx]
       IN  IF ~should_process_server_count(count_runs, s.url, s.revisit_days,
                                           today)
           THEN /\ idx' = idx + 1
                /\ UNCHANGED <<count_runs, countRunDays, layerQueue, pc, run_id,
                               clock>>
           ELSE /\ RunCount < limit
                /\ count_runs' = start_count_run(count_runs, clock + 1, s.url,
                                                 today)
                /\ countRunDays' = Append(countRunDays, elapsed)
                /\ run_id' = Len(count_runs) + 1
                /\ clock' = clock + 1
                /\ layerQueue' = get_feature_layers_for_server(resources,
                                                               fields, s.url)
                /\ pc' = "counting"
                /\ UNCHANGED idx
    /\ UNCHANGED <<storeVars, counts, sampleLog, crawlVars, serverList, today,
                   elapsed, workers,
                   classified>>

\* One iteration of "for layer in layers": query the count, insert_count.
CountLayer ==
    /\ pc = "counting"
    /\ layerQueue # << >>
    /\ \E a \in 1..Len(QueryAnswers) :
          LET count == get_feature_layer_record_count(QueryAnswers[a])
          IN  /\ counts' = insert_count(counts, clock + 1, Head(layerQueue),
                                        count)
              /\ sampleLog' = Append(sampleLog, <<Head(layerQueue), count, a>>)
    /\ clock' = clock + 1
    /\ layerQueue' = Tail(layerQueue)
    /\ UNCHANGED <<storeVars, count_runs, countRunDays, crawlVars, mainVars,
                   today, elapsed, workers,
                   classified>>

\* The layer loop is over: end_count_run, next server.
CountEndRun ==
    /\ pc = "counting"
    /\ layerQueue = << >>
    /\ count_runs' = end_count_run(count_runs, clock + 1, run_id)
    /\ clock' = clock + 1
    /\ idx' = idx + 1
    /\ pc' = "countloop"
    /\ UNCHANGED <<storeVars, counts, layerQueue, sampleLog, countRunDays,
                   crawlVars, serverList, run_id, today, elapsed, workers,
                   classified>>

\* The loop is over: conn.close().
CountExit ==
    /\ pc = "countloop"
    /\ idx > Len(serverList)
    /\ ProcessExit
    /\ UNCHANGED <<storeVars, counts, count_runs, sampleLog, countRunDays,
                   lastCrawl, clock, today, elapsed,
                   workers,
                   classified>>

\* The count script is killed inside a run.
CountCrash ==
    /\ pc = "counting"
    /\ ProcessExit
    /\ UNCHANGED <<storeVars, counts, count_runs, sampleLog, countRunDays,
                   lastCrawl, clock, today, elapsed,
                   workers,
                   classified>>

\* A statement of insert_count raises sqlite3.Error inside the layer loop;
\* main does not catch it.
CountStoreError ==
    /\ pc = "counting"
    /\ layerQueue # << >>
    /\ ProcessExit
    /\ UNCHANGED <<storeVars, counts, count_runs, sampleLog, countRunDays,
                   lastCrawl, clock, today, elapsed, workers,
                   classified>>

(***************************************************************************)
(* update_resource and update_field statement by statement, as two         *)
(* processes run them against one database.  Every execute-and-commit is   *)
(* one step; the SELECT returns any one of the rows it matches.            *)
(***************************************************************************)
MetadataChoices == <<RootDesc, EmptyDict>>

FieldChoices ==
    <<OidField, [name |-> "OID", type |-> "esriFieldTypeInteger"]>>

otherVars ==
    <<servers, domains, processing_runs, runDays, countVars, crawlVars,
      mainVars, today, elapsed, classified>>

\* update_resource, lines 98-107: the timestamp, the SELECT and the comparison.
UpsertSelect(w) ==
    /\ workers[w].pc = "idle"
    /\ workers[w].calls < MaxCalls
    /\ \E m \in 1..Len(MetadataChoices) :
          LET metadata == MetadataChoices[m]
              act == ResActive(resources, S1)
              me == [workers[w] EXCEPT !.now = clock + 1,
                                       !.metadata = metadata]
          IN  IF act = {}
              THEN workers' = [workers EXCEPT ![w] =
                                  [me EXCEPT !.pc = "insertResource"]]
              ELSE \E i \in act :
                      workers' = [workers EXCEPT ![w] =
                          IF ResourceUnchanged(resources[i].metadata,
                                               JsonDumps(metadata))
                          THEN [me EXCEPT !.calls = @ + 1]
                          ELSE [me EXCEPT !.pc = "endDateResource"]]
    /\ clock' = clock + 1
    /\ UNCHANGED <<resources, fields, otherVars>>

\* update_resource, lines 110-111: the UPDATE and its commit.
UpsertEndDate(w) ==
    /\ workers[w].pc = "endDateResource"
    /\ resources' = EndDateResource(resources, workers[w].now, S1)
    /\ workers' = [workers EXCEPT ![w].pc = "insertResource"]
    /\ UNCHANGED <<fields, clock, otherVars>>

\* update_resource, lines 113-117: the INSERT and its commit.
UpsertInsert(w) ==
    /\ workers[w].pc = "insertResource"
    /\ resources' = Append(resources,
                        ResourceRow(workers[w].now, S1, "server", None, NoUrl,
                                    S1, TRUE, JsonDumps(workers[w].metadata),
                                    None, None))
    /\ workers' = [workers EXCEPT ![w].pc = "idle", ![w].calls = @ + 1]
    /\ UNCHANGED <<fields, clock, otherVars>>

\* update_field, lines 123-133.
FieldSelect(w) ==
    /\ workers[w].pc = "idle"
    /\ workers[w].calls < MaxCalls
    /\ \E f \in 1..Len(FieldChoices) :
          LET field == FieldChoices[f]
              act == FieldActive(fields, LayerUrl, Get(field, "name"))
              me == [workers[w] EXCEPT !.now = clock + 1, !.field = field]
          IN  IF act = {}
              THEN workers' = [workers EXCEPT ![w] =
                                  [me EXCEPT !.pc = "insertField"]]
              ELSE \E i \in act :
                      workers' = [workers EXCEPT ![w] =
                          IF FieldUnchanged(fields[i], field)
                          THEN [me EXCEPT !.calls = @ + 1]
                          ELSE [me EXCEPT !.pc = "endDateField"]]
    /\ clock' = clock + 1
    /\ UNCHANGED <<resources, fields, otherVars>>

\* update_field, lines 135-137.
FieldEndDate(w) ==
    /\ workers[w].pc = "endDateField"
    /\ fields' = EndDateField(fields, workers[w].now, LayerUrl,
                              Get(workers[w].field, "name"))
    /\ workers' = [workers EXCEPT ![w].pc = "insertField"]
    /\ UNCHANGED <<resources, clock, otherVars>>

\* update_field, lines 138-142.
FieldInsert(w) ==
    /\ workers[w].pc = "insertField"
    /\ fields' = Append(fields, FieldRow(workers[w].now, LayerUrl,
                                         workers[w].field))
    /\ workers' = [workers EXCEPT ![w].pc = "idle", ![w].calls = @ + 1]
    /\ UNCHANGED <<resources, clock, otherVars>>

NextConc ==
    \E w \in Workers :
        \/ UpsertSelect(w)
        \/ UpsertEndDate(w)
        \/ UpsertInsert(w)
        \/ FieldSelect(w)
        \/ FieldEndDate(w)
        \/ FieldInsert(w)

SpecConc == Init /\ [][NextConc]_vars

\* The catalogs a crawl may meet whose entries have the keys crawl reads
\* without a default.
AllCatalogs == (S1 :> (1..10) \cup {13}) @@ (S2 :> {1, 2, 4})

\* Catalogs with entries that lack keys.
MalformedCatalogs == (S1 :> {11, 12}) @@ (S2 :> {1})

Next ==
    \/ MainStart({0}, MaxRuns)
    \/ ServerStep(AllCatalogs, MaxRuns)
    \/ Crawl
    \/ EndRun
    \/ MainExit

Spec == Init /\ [][Next]_vars

\* The schedulers of both scripts over days and interrupted runs, against
\* servers that do not answer.  main.py schedules from processing_runs and
\* count_feature_records.py from count_runs, and neither reads the other's
\* table: a behaviour runs one of the two scripts, any number of times.
DownCatalogs == (S1 :> {8}) @@ (S2 :> {2})

NextSched ==
    \/ count_runs = << >> /\ MainStart(RevisitChoices, MaxRuns)
    \/ ServerStep(DownCatalogs, MaxRuns)
    \/ CrawlVisit
    \/ EndRun
    \/ MainExit
    \/ Crash
    \/ processing_runs = << >> /\ CountStart(RevisitChoices, MaxRuns)
    \/ CountServerStep(MaxRuns)
    \/ CountEndRun
    \/ CountExit
    \/ CountCrash
    \/ Tick

SpecSched == Init /\ [][NextSched]_vars

\* The crawler as a running program: a crawl in flight takes its next step.
NextLive ==
    \/ MainStart({0}, MaxLiveRuns)
    \/ ServerStep(AllCatalogs, MaxLiveRuns)
    \/ Crawl
    \/ EndRun
    \/ MainExit

SpecLive == Init /\ [][NextLive]_vars /\ WF_vars(Crawl) /\ WF_vars(EndRun)

\* Each server answers with its tree.
CountCatalogs == (S1 :> {1}) @@ (S2 :> {3})

\* Repeated crawls of a server whose layer has a coded-value domain and does
\* not change.
DomainCatalogs == (S1 :> {13}) @@ (S2 :> {1})

NextDomain ==
    \/ MainStart({0}, MaxRuns)
    \/ ServerStep(DomainCatalogs, MaxRuns)
    \/ Crawl
    \/ EndRun
    \/ MainExit

SpecDomain == Init /\ [][NextDomain]_vars

\* The crawler against descriptors with missing keys.
NextMalformed ==
    \/ MainStart({0}, MaxFaultRuns)
    \/ ServerStep(MalformedCatalogs, MaxFaultRuns)
    \/ Crawl
    \/ EndRun
    \/ MainExit

SpecMalformed == Init /\ [][NextMalformed]_vars

\* Both scripts against a database whose statements can fail.
NextFault ==
    \/ MainStart({0}, MaxFaultRuns)
    \/ ServerStep(CountCatalogs, MaxFaultRuns)
    \/ Crawl
    \/ StoreError
    \/ EndRun
    \/ MainExit
    \/ CountStart({0}, MaxFaultRuns)
    \/ CountServerStep(MaxFaultRuns)
    \/ CountLayer
    \/ CountStoreError
    \/ CountEndRun
    \/ CountExit

SpecFault == Init /\ [][NextFault]_vars

\* The count sampler over a store the crawler filled.

NextCount ==
    \/ MainStart({0}, MaxCountRuns)
    \/ ServerStep(CountCatalogs, MaxCountRuns)
    \/ Crawl
    \/ EndRun
    \/ MainExit
    \/ CountStart({0}, MaxCountRuns)
    \/ CountServerStep(MaxCountRuns)
    \/ CountLayer
    \/ CountEndRun
    \/ CountExit

SpecCount == Init /\ [][NextCount]_vars

(***************************************************************************)
(* Properties.                                                             *)
(***************************************************************************)
Urls(res) == {res[i].url : i \in 1..Len(res)}

\* C1: after any number of sequential crawls, and at every point inside
\* them, no url has more than one row of resources with active = 1.
C1_OneActiveResourcePerUrl ==
    \A u \in Urls(resources) : Cardinality(ResActive(resources, u)) <= 1

\* A url that a later crawl versioned: an end-dated row and an active one.
C1_Witness ==
    \E i, j \in 1..Len(resources) :
        /\ resources[i].url = resources[j].url
        /\ resources[i].active = 0
        /\ resources[j].active = 1
        /\ Len(processing_runs) > 1

\* C2: when two workers run update_resource (or update_field) for the same
\* key with their statements interleaved, the select-compare-end-date-insert
\* sequence acts as one atomic unit: at most one row is active for the url
\* (for the field) in every reachable state.
C2_AtomicUpsert ==
    /\ Cardinality(ResActive(resources, S1)) <= 1
    /\ Cardinality(FieldActive(fields, LayerUrl, "OID")) <= 1

\* The crawl in flight has returned to main (every loop of every activation
\* is over); end_processing_run is the next statement.
CrawlReturned == pc = "crawl" /\ stack = << >>

\* The crawl in flight meets the catalog the last crawl of its server
\* completed on: every fetch answers as it did then.
IdenticalRecrawl ==
    pc = "crawl" /\ lastCrawl[catalog.server] = catalog.n

\* C3: a re-crawl in which every fetch is identical to the previous crawl
\* inserts no row into resources and fields and changes no row of them,
\* whatever the shape of the catalog.
C3_IdenticalRecrawlNoChurn ==
    IdenticalRecrawl =>
        resources = atStart.resources /\ fields = atStart.fields

FieldKeys == {<<fields[i].resource_url, fields[i].field_name>> :
                 i \in 1..Len(fields)}

RowsOfField(key) ==
    {i \in 1..Len(fields) :
        fields[i].resource_url = key[1] /\ fields[i].field_name = key[2]}

Latest(S) == CHOOSE i \in S : \A j \in S : j <= i

\* C4: for every (resource_url, field_name) at most one row of fields is
\* active, and a version is inserted only when its (field_type, alias)
\* differs from the version active before it: no row repeats the pair of the
\* row of its key inserted just before it.
C4_FieldVersioning ==
    \A key \in FieldKeys :
        /\ Cardinality({i \in RowsOfField(key) : fields[i].active = 1}) <= 1
        /\ \A k \in RowsOfField(key) :
              LET before == {j \in RowsOfField(key) : j < k}
              IN  before # {} =>
                     <<fields[Latest(before)].field_type,
                       fields[Latest(before)].alias>>
                        # <<fields[k].field_type, fields[k].alias>>

Occurrences(seq, x) == Cardinality({i \in 1..Len(seq) : seq[i] = x})

\* C5: a crawl of a catalog with finitely many urls terminates, also when
\* the catalog has a cycle, and the walker visits (fetches and persists) no
\* url twice in a crawl: each node of the cycle root <-> Fold1 exactly once.
C5_CyclicCrawlTerminates ==
    /\ [](\A u \in visited : Occurrences(log, u) = 1)
    /\ [](pc = "crawl" => <>(pc = "loop"))
    /\ [](CrawlReturned /\ catalog.server = S1 /\ catalog.n = 3 =>
             /\ Occurrences(log, S1) = 1
             /\ Occurrences(log, Fold1Url) = 1
             /\ Cardinality({i \in 1..Len(resources) :
                   /\ resources[i].url \in {S1, Fold1Url}
                   /\ resources[i].start_timestamp
                         > processing_runs[run_id].start_timestamp}) <= 2)

\* The crawl of the cyclic catalog returned after Fold1 listed the root and
\* itself as child folders.
C5_Witness ==
    /\ CrawlReturned
    /\ catalog.server = S1 /\ catalog.n = 3
    /\ {S1, Fold1Url, SvcUrl} \subseteq visited

LastDay(runs, days, server_url) ==
    LET rows == RunsOf(runs, server_url)
    IN  days[CHOOSE i \in rows : \A j \in rows : days[j] <= days[i]]

\* What the claim says should_run(s, d) is for d > 0.
ShouldRunByDays(runs, days, server_url, d) ==
    RunsOf(runs, server_url) = {}
        \/ elapsed - LastDay(runs, days, server_url) >= d

\* C6: for d > 0, should_run(s, d) is true when no run of s is recorded and
\* otherwise exactly when d or more midnights passed since the most recent
\* run of s (so it is false on the day of that run), whatever runs of s and
\* of other servers are recorded; for both scripts.
C6_ShouldRunByCalendarDays ==
    \A s \in {S1, S2}, d \in 1..(MaxDay + 1) :
        /\ should_process_server(processing_runs, s, d, today)
              = ShouldRunByDays(processing_runs, runDays, s, d)
        /\ should_process_server_count(count_runs, s, d, today)
              = ShouldRunByDays(count_runs, countRunDays, s, d)

\* Two runs of s on different days, a later run of the other server, and a
\* day on which should_run(s, 1) and should_run(s, 2) differ.
C6_Witness ==
    \E s, t \in {S1, S2} :
        /\ s # t
        /\ \E i, j \in RunsOf(processing_runs, s) : runDays[i] # runDays[j]
        /\ RunsOf(processing_runs, t) # {}
        /\ LastDay(processing_runs, runDays, t)
              > LastDay(processing_runs, runDays, s)
        /\ should_process_server(processing_runs, s, 1, today)
        /\ ~should_process_server(processing_runs, s, 2, today)

\* C7: should_run(s, 0) is true for every server and every run history.
C7_ZeroAlwaysRuns ==
    \A s \in {S1, S2} :
        /\ should_process_server(processing_runs, s, 0, today)
        /\ should_process_server_count(count_runs, s, 0, today)

\* No script runs, and a run recorded today was left open.
C7_Witness ==
    /\ pc = "idle"
    /\ \E i \in 1..Len(processing_runs) :
          /\ processing_runs[i].run_date = IsoDate(today)
          /\ processing_runs[i].end_timestamp = NullTs

\* The runs that reached end_run.
Ended(runs) ==
    LET IsEnded(r) == r.end_timestamp # NullTs
    IN  SelectSeq(runs, IsEnded)

\* C8: a run that never reached end_run never blocks a scheduling decision:
\* when no script runs, should_run(s, d) is not false where it would be true
\* without the runs left open.
C8_DanglingRunNeverBlocks ==
    pc = "idle" =>
        \A s \in {S1, S2}, d \in RevisitChoices :
            /\ should_process_server(Ended(processing_runs), s, d, today)
                  => should_process_server(processing_runs, s, d, today)
            /\ should_process_server_count(Ended(count_runs), s, d, today)
                  => should_process_server_count(count_runs, s, d, today)

SampledLayers == {sampleLog[i][1] : i \in 1..Len(sampleLog)}

SamplesOf(u) == {i \in 1..Len(sampleLog) : sampleLog[i][1] = u}

CountRows(u, a) ==
    {i \in 1..Len(counts) : counts[i].layer_url = u /\ counts[i].active = a}

\* C9: after k >= 1 samples of a layer_url, counts holds exactly one active
\* row and k - 1 inactive rows for it, whether or not the values differ.
C9_OneActiveCountPerLayer ==
    \A u \in SampledLayers :
        /\ Cardinality(CountRows(u, 1)) = 1
        /\ Cardinality(CountRows(u, 0)) = Cardinality(SamplesOf(u)) - 1

\* A layer sampled three times, twice with the same count and once with
\* another.
C9_Witness ==
    \E u \in SampledLayers :
        /\ Cardinality(SamplesOf(u)) >= 3
        /\ \E i, j \in SamplesOf(u) : i # j /\ sampleLog[i][2] = sampleLog[j][2]
        /\ \E i, j \in SamplesOf(u) : sampleLog[i][2] # sampleLog[j][2]

RowsOfUrl(res, u) == {i \in 1..Len(res) : res[i].url = u}

\* C10: when a fetched node lists a layer whose own descriptor fetch fails
\* and whose url had no row before the crawl, the crawl returns with exactly
\* one resources row for that url: type layer, accessible = 0, metadata the
\* listing entry of the parent.
C10_FailedLayerOneRow ==
    CrawlReturned =>
        \A u \in visited :
            \A k \in 1..Len(GetList(fetch_json(Catalog, u).data, "layers")) :
                LET entry == fetch_json(Catalog, u).data.layers[k]
                    layer_url == ChildUrl(u, entry)
                    rows == RowsOfUrl(resources, layer_url)
                IN  (/\ ~fetch_json(Catalog, layer_url).ok
                     /\ RowsOfUrl(atStart.resources, layer_url) = {})
                    => /\ Cardinality(rows) = 1
                       /\ \A i \in rows :
                             /\ resources[i].type = "layer"
                             /\ resources[i].accessible = 0
                             /\ resources[i].metadata = JsonDumps(entry)

\* The crawl in flight began on an empty store.
FromEmptyStore == atStart.resources = << >> /\ atStart.fields = << >>

\* The columns the claim names, per row of resources.
Summary(r) ==
    [url |-> r.url, type |-> r.type, subtype |-> r.subtype, name |-> r.name,
     active |-> r.active]

\* C11: from an empty store, the crawl of the tree root -> Fold1 -> Fold1/Svc
\* (MapServer) -> layer 0 "Roads" with the field OID leaves exactly a server,
\* a folder, a service of subtype MapServer at <root>/Fold1/Svc/MapServer
\* (the Fold1/ prefix stripped), a layer named Roads and one fields row for
\* OID, all active.
C11_TreeStoreContents ==
    (CrawlReturned /\ FromEmptyStore /\ catalog = [server |-> S1, n |-> 1]) =>
        /\ Len(resources) = 4
        /\ {Summary(resources[i]) : i \in 1..Len(resources)} =
              {[url |-> S1, type |-> "server", subtype |-> None,
                name |-> None, active |-> 1],
               [url |-> S1 \o <<"Fold1">>, type |-> "folder", subtype |-> None,
                name |-> None, active |-> 1],
               [url |-> S1 \o <<"Fold1", "Svc", "MapServer">>,
                type |-> "service", subtype |-> "MapServer",
                name |-> None, active |-> 1],
               [url |-> S1 \o <<"Fold1", "Svc", "MapServer", "0">>,
                type |-> "layer", subtype |-> None,
                name |-> "Roads", active |-> 1]}
        /\ Len(fields) = 1
        /\ fields[1].resource_url = S1 \o <<"Fold1", "Svc", "MapServer", "0">>
        /\ fields[1].field_name = "OID"
        /\ fields[1].field_type = "esriFieldTypeOID"
        /\ fields[1].active = 1

\* The crawl of the tree returned, begun on an empty store.
C11_Witness ==
    /\ CrawlReturned /\ FromEmptyStore
    /\ catalog = [server |-> S1, n |-> 1]
    /\ Len(log) = 3

\* The rows of table now that were in table before, unchanged, and the rows
\* added since: a table only grows at its end.
KeptRows(now, before, Keep(_)) ==
    \A i \in 1..Len(now) :
        Keep(now[i]) => i <= Len(before) /\ now[i] = before[i]

\* C12: when between two crawls exactly one field of a layer changes its
\* type (OID, esriFieldTypeOID -> esriFieldTypeInteger; the sibling Shape and
\* the rest of the layer unchanged), the second crawl adds a version for that
\* field only: no row of a sibling field and no row of the owning layer
\* resource is end-dated or inserted.
C12_FieldVersionedAlone ==
    (/\ CrawlReturned
     /\ catalog = [server |-> S1, n |-> 5]
     /\ lastCrawl[S1] = 9) =>
        LET IsSibling(f) == f.field_name # "OID"
            IsLayer(r) == r.url = LayerUrl
            IsAny(f) == TRUE
        IN  /\ Len(atStart.fields) <= Len(fields)
            /\ KeptRows(fields, atStart.fields, IsSibling)
            /\ ~KeptRows(fields, atStart.fields, IsAny)
            /\ Len(atStart.resources) <= Len(resources)
            /\ KeptRows(resources, atStart.resources, IsLayer)

\* The urls a descriptor declares for the walker (folders and services) and
\* for the layer and table loops.
WalkerChildren(cat, u) ==
    LET r == fetch_json(cat, u)
    IN  IF ~r.ok THEN {}
        ELSE {UrlJoin(u, GetList(r.data, "folders")[k]) :
                 k \in 1..Len(GetList(r.data, "folders"))}
             \cup {ServiceUrl(u, GetList(r.data, "services")[k]) :
                      k \in 1..Len(GetList(r.data, "services"))}

ListedChildren(cat, u) ==
    LET r == fetch_json(cat, u)
    IN  IF ~r.ok THEN {}
        ELSE {ChildUrl(u, GetList(r.data, "layers")[k]) :
                 k \in 1..Len(GetList(r.data, "layers"))}
             \cup {ChildUrl(u, GetList(r.data, "tables")[k]) :
                      k \in 1..Len(GetList(r.data, "tables"))}

\* The nodes reachable from R through chains of successfully fetched nodes.
RECURSIVE ReachFrom(_, _)
ReachFrom(cat, R) ==
    LET N == R \cup UNION {WalkerChildren(cat, u) : u \in R}
    IN  IF N = R THEN R ELSE ReachFrom(cat, N)

\* The urls of the rows this crawl added to resources.
NewUrls ==
    {resources[i].url : i \in (Len(atStart.resources) + 1)..Len(resources)}

\* C13: a fetch failure never aborts the crawl and truncates only the
\* subtree of the failing node: when the crawl returns, every node reachable
\* from the root through successfully fetched nodes was fetched and has its
\* row, as has every layer and table those nodes list, and nothing was
\* fetched or written for a child declared only by a node whose fetch
\* failed; and no crawl ends otherwise than by returning to the main loop.
C13_FailureTruncatesSubtreeOnly ==
    /\ [](CrawlReturned =>
            LET R == ReachFrom(Catalog, {catalog.server})
                L == UNION {ListedChildren(Catalog, u) : u \in R}
            IN  /\ visited = R
                /\ {log[i] : i \in 1..Len(log)} = R
                /\ \A u \in R \cup L : ResActive(resources, u) # {}
                /\ NewUrls \subseteq R \cup L)
    /\ [][pc = "crawl" => pc' \in {"crawl", "loop"}]_vars

\* The crawl returned after Fold1 failed to fetch: Fold1 is stored as
\* inaccessible and the crawl went on through Fold2 to its service.
C13_Witness ==
    /\ CrawlReturned
    /\ catalog = [server |-> S1, n |-> 10]
    /\ \E i \in ResActive(resources, Fold1Url) : resources[i].accessible = 0
    /\ {Fold2Url, Svc2Url} \subseteq visited
    /\ SvcUrl \notin visited

\* C14: a store error raised while a server is processed is fatal to that
\* server's run only: the step that leaves a crawl with activations pending
\* (a count run with layers pending) leaves the run row open and hands
\* control to the main loop at the next server of the same list.
C14_StoreErrorFatalToRunOnly ==
    [][/\ (pc = "crawl" /\ stack # << >> /\ pc' # "crawl") =>
            /\ pc' = "loop"
            /\ idx' = idx + 1
            /\ serverList' = serverList
            /\ processing_runs' = processing_runs
       /\ (pc = "counting" /\ layerQueue # << >> /\ pc' # "counting") =>
            /\ pc' = "countloop"
            /\ idx' = idx + 1
            /\ serverList' = serverList
            /\ count_runs' = count_runs]_vars

\* C15: a descriptor with an expected key missing (a services entry without
\* name or type, a layers entry without id, a field without name) never
\* raises an error: no crawl ends the process, every crawl goes on to
\* end_processing_run.
C15_MissingKeyNeverRaises ==
    [][pc = "crawl" => pc' # "idle"]_vars

\* The rows of domains for the field Kind of layer 0.
KindRows ==
    LET OfKind(d) == d.resource_url = LayerUrl /\ d.field_name = "Kind"
    IN  SelectSeq(domains, OfKind)

\* The (code, value) pairs of k recordings of the domain of Kind.
RECURSIVE Recordings(_)
Recordings(k) ==
    IF k = 0 THEN << >>
    ELSE Recordings(k - 1) \o << <<"1", "Paved">>, <<"2", "Gravel">> >>

\* C16: domain entries are append-only and never deduplicated: every
\* processing of a field with a coded-value domain of m entries appends
\* exactly m rows (here m = 2), so after k crawls of the unchanged layer the
\* table holds k * m rows for the field; and no step changes or removes a
\* row of domains.
C16_DomainsAppendOnly ==
    /\ [](pc \in {"idle", "loop"} =>
            LET k == Cardinality(RunsOf(processing_runs, S1))
            IN  [i \in 1..Len(KindRows) |->
                    <<KindRows[i].domain_code, KindRows[i].domain_value>>]
                   = Recordings(k))
    /\ [][/\ Len(domains') >= Len(domains)
          /\ SubSeq(domains', 1, Len(domains)) = domains]_vars

\* The unchanged layer was crawled twice or more.
C16_Witness ==
    /\ pc = "idle"
    /\ Cardinality(RunsOf(processing_runs, S1)) >= 2
    /\ Len(KindRows) >= 4
    /\ Cardinality(ResActive(resources, LayerUrl)) = 1
    /\ Cardinality(RowsOfUrl(resources, LayerUrl)) = 1

\* C17: one pass of the main loop creates exactly one processing_runs row
\* when should_run is true and none when it is false; the row has run_date =
\* today and end_timestamp null from start_run until the crawl returns; and
\* end_run fills end_timestamp of that run_id and changes no other row.
C17_RunBookkeeping ==
    /\ [][(pc = "loop" /\ idx <= Len(serverList)
                        /\ (idx' # idx \/ pc' = "crawl")) =>
            LET s == serverList[idx]
                n == Len(processing_runs)
            IN  IF s.revisit_days = 0
                   \/ ShouldRunByDays(processing_runs, runDays, s.url,
                                      s.revisit_days)
                THEN /\ Len(processing_runs') = n + 1
                     /\ SubSeq(processing_runs', 1, n) = processing_runs
                     /\ processing_runs'[n + 1].server_url = s.url
                     /\ processing_runs'[n + 1].run_id = run_id'
                     /\ pc' = "crawl"
                ELSE /\ processing_runs' = processing_runs
                     /\ pc' = "loop"]_vars
    /\ [](pc = "crawl" =>
            /\ processing_runs[run_id].end_timestamp = NullTs
            /\ ParseDate(processing_runs[run_id].run_date) = today
            /\ processing_runs[run_id].server_url = catalog.server
            /\ processing_runs[run_id].start_timestamp # NullTs)
    /\ [][(pc = "crawl" /\ pc' = "loop") =>
            /\ processing_runs'[run_id].end_timestamp # NullTs
            /\ processing_runs'[run_id].end_timestamp
                  > processing_runs[run_id].start_timestamp
            /\ processing_runs =
                  [processing_runs' EXCEPT ![run_id].end_timestamp = NullTs]]_vars

\* end_run closed the run in flight while an earlier run, cut short, is
\* still open, on a day when a server of the list was skipped.
C17_Witness ==
    /\ pc = "loop"
    /\ run_id > 1
    /\ processing_runs[run_id].end_timestamp # NullTs
    /\ \E i \in 1..(run_id - 1) : processing_runs[i].end_timestamp = NullTs
    /\ \E j \in 1..Len(serverList) :
          ~should_process_server(processing_runs, serverList[j].url,
                                 serverList[j].revisit_days, today)

\* The layers the claim calls qualifying, for a server: an active resources
\* row of type layer whose capabilities name Query, and a fields row.
Qualifying(server_url) ==
    {u \in Urls(resources) :
        /\ \E i \in ResActive(resources, u) :
              /\ resources[i].server_url = server_url
              /\ resources[i].type = "layer"
              /\ \E k \in 1..Len(resources[i].metadata) :
                    /\ resources[i].metadata[k][1] = "capabilities"
                    /\ \E j \in 1..Len(resources[i].metadata[k][2]) :
                          resources[i].metadata[k][2][j] = "Query"
        /\ \E f \in 1..Len(fields) : fields[f].resource_url = u}

\* C18: a failed count query counts as zero and does not abort the batch:
\* when a count run has ended, every qualifying layer of its server has
\* exactly one counts row written in that run, which is active, no row was
\* written in it for any other url, and every counts row holds zero when
\* its query failed or answered with an error and the answered count
\* otherwise.
C18_CountBatchCoversQualifying ==
    /\ (pc = "countloop" /\ run_id > 0
           /\ count_runs[run_id].end_timestamp # NullTs) =>
          LET run == count_runs[run_id]
              New == {i \in 1..Len(counts) :
                         counts[i].timestamp > run.start_timestamp}
          IN  /\ \A u \in Qualifying(run.server_url) :
                    /\ Cardinality({i \in New : counts[i].layer_url = u}) = 1
                    /\ \A i \in New :
                          counts[i].layer_url = u => counts[i].active = 1
              /\ \A i \in New :
                    counts[i].layer_url \in Qualifying(run.server_url)
    /\ Len(sampleLog) = Len(counts)
    /\ \A i \in 1..Len(counts) :
          LET answer == QueryAnswers[sampleLog[i][3]]
          IN  /\ counts[i].layer_url = sampleLog[i][1]
              /\ counts[i].record_count =
                    IF answer.ok /\ "count" \in DOMAIN answer.data
                    THEN answer.data.count ELSE 0

\* A count run of S2 ended in which the query of the first qualifying layer
\* failed and the second layer was still sampled.
C18_Witness ==
    /\ pc = "countloop" /\ run_id > 0
    /\ count_runs[run_id].end_timestamp # NullTs
    /\ count_runs[run_id].server_url = S2
    /\ Cardinality(Qualifying(S2)) = 2
    /\ \E i, j \in 1..Len(counts) :
          /\ i < j
          /\ counts[i].timestamp > count_runs[run_id].start_timestamp
          /\ ~QueryAnswers[sampleLog[i][3]].ok
          /\ counts[i].record_count = 0
          /\ counts[j].record_count = 7

\* C19: after every crawl in which the walker's fetch of a node failed, the
\* active resources row of the node has accessible = 0 and empty metadata,
\* whatever versions of the node earlier crawls stored.
C19_FailedNodeStoredInaccessible ==
    CrawlReturned =>
        \A u \in visited :
            ~fetch_json(Catalog, u).ok =>
                /\ ResActive(resources, u) # {}
                /\ \A i \in ResActive(resources, u) :
                      /\ resources[i].accessible = 0
                      /\ resources[i].metadata = JsonDumps(EmptyDict)

\* The entries a fetched node lists under key, with the kind the loop over
\* them pins.
TypedChildren(u, key) ==
    LET entries == GetList(fetch_json(Catalog, u).data, key)
    IN  {ChildUrl(u, entries[k]) : k \in 1..Len(entries)}

\* C20: every node reached as a layer or table child whose descriptor was
\* fetched is stored with type layer (resp. table) and with the subtype its
\* descriptor declares under "type", for layers and for tables alike.
C20_ChildTypePinned ==
    CrawlReturned =>
        \A u \in visited :
            \A kind \in {"layer", "table"} :
                \A c \in TypedChildren(u, IF kind = "layer" THEN "layers"
                                          ELSE "tables") :
                    LET r == fetch_json(Catalog, c)
                    IN  (r.ok /\ Truthy(r.data)) =>
                            /\ ResActive(resources, c) # {}
                            /\ \A i \in ResActive(resources, c) :
                                  /\ resources[i].type = kind
                                  /\ resources[i].subtype = Get(r.data, "type")

(***************************************************************************)
(* C21                                                                     *)
(***************************************************************************)
\* The last path segments that end in "Server".
ServerNames == {"MapServer", "FeatureServer", "GPServer", "ImageServer", "Server"}

\* The four rules in their order, the first that matches deciding.
FirstMatch(c) ==
    CASE c.parent_url = NoUrl -> <<"server", None>>
      [] c.parent_url # NoUrl
           /\ c.answer.ok
           /\ {"folders", "services"} \cap DOMAIN c.answer.data # {}
           -> <<"folder", None>>
      [] c.parent_url # NoUrl
           /\ ~(c.answer.ok
                  /\ {"folders", "services"} \cap DOMAIN c.answer.data # {})
           /\ c.url[Len(c.url)] \in ServerNames
           -> <<"service", c.url[Len(c.url)]>>
      [] OTHER -> <<"unknown", None>>

\* C21: classify_resource answers every (url, descriptor or none, parent or
\* none) with exactly one (type, subtype), the one of the first rule that
\* matches: no parent gives (server, none) whatever the descriptor and the
\* url; otherwise a descriptor with folders or services gives (folder, none)
\* even when the url ends in Server; otherwise a url ending in Server gives
\* (service, last path segment) even when the fetch failed; otherwise
\* (unknown, none).
C21_ClassifyFirstMatch ==
    classified.done =>
        <<classified.result.type, classified.result.subtype>>
            = FirstMatch(classified)

\* A node with a parent whose url ends in Server and whose descriptor lists
\* folders has been classified.
C21_Witness ==
    /\ classified.done
    /\ classified.parent_url # NoUrl
    /\ classified.url[Len(classified.url)] = "MapServer"
    /\ "folders" \in DOMAIN classified.answer.data
    /\ classified.result.type = "folder"
(***************************************************************************)
(* C22                                                                     *)
(***************************************************************************)
\* The urls the catalog of the crawl in flight lets it upsert: the nodes
\* reachable from the root, and the layers and tables they list.
UpsertSet ==
    LET R == ReachFrom(Catalog, {catalog.server})
    IN  R \cup UNION {ListedChildren(Catalog, u) : u \in R}

\* The rows of before are all still there in after, each one either as it
\* was or, if it was active, end-dated and otherwise as it was, with a row
\* appended in the same step that is active and has the same key.
VersionedOnly(before, after, SameKey(_, _)) ==
    /\ Len(after) >= Len(before)
    /\ \A i \in 1..Len(before) :
          after[i] # before[i] =>
              /\ before[i].active = 1
              /\ after[i].active = 0
              /\ after[i].end_timestamp # NullTs
              /\ after[i] = [before[i] EXCEPT
                                !.active = 0,
                                !.end_timestamp = after[i].end_timestamp]
              /\ \E j \in (Len(before) + 1)..Len(after) :
                     after[j].active = 1 /\ SameKey(after[j], before[i])

SameUrl(a, b) == a.url = b.url

SameField(a, b) ==
    a.resource_url = b.resource_url /\ a.field_name = b.field_name

\* C22: a crawl changes rows of resources and fields only for the urls it
\* upserts: at every point of a crawl the rows it found whose url is outside
\* the set its catalog lets it upsert are exactly as they were, so the
\* active row of a node that vanished from the catalog stays active, and
\* every row it added is for a url inside the set; no step outside a crawl
\* changes the two tables; in every step a row is never removed and changes
\* only from active to end-dated, together with the insertion of an active
\* successor for the same key; and a url that has an active row has exactly
\* one after every step.
C22_CrawlFrame ==
    /\ [](pc = "crawl" =>
            LET U == UpsertSet
            IN  /\ Len(resources) >= Len(atStart.resources)
                /\ Len(fields) >= Len(atStart.fields)
                /\ \A i \in 1..Len(atStart.resources) :
                      resources[i] # atStart.resources[i] =>
                          atStart.resources[i].url \in U
                /\ \A i \in (Len(atStart.resources) + 1)..Len(resources) :
                      resources[i].url \in U
                /\ \A i \in 1..Len(atStart.fields) :
                      fields[i] # atStart.fields[i] =>
                          atStart.fields[i].resource_url \in U
                /\ \A i \in (Len(atStart.fields) + 1)..Len(fields) :
                      fields[i].resource_url \in U)
    /\ [][/\ pc # "crawl" => UNCHANGED <<resources, fields>>
          /\ VersionedOnly(resources, resources', SameUrl)
          /\ VersionedOnly(fields, fields', SameField)
          /\ \A u \in Urls(resources) :
                ResActive(resources, u) # {} =>
                    Cardinality(ResActive(resources', u)) = 1]_vars

\* A crawl returned that versioned the root and never reached a node an
\* earlier crawl had stored: that node's row is active and as it was.
C22_Witness ==
    /\ CrawlReturned
    /\ \E i \in 1..Len(atStart.resources) :
          /\ atStart.resources[i].active = 1
          /\ atStart.resources[i].url \notin UpsertSet
          /\ resources[i] = atStart.resources[i]
    /\ \E k \in 1..Len(atStart.resources) :
          /\ resources[k] # atStart.resources[k]
          /\ resources[k].url = catalog.server
====
